---- MODULE Spec2Model ----
(***************************************************************************)
(* Model of the detection-and-evaluation core of uli-net-sim               *)
(* (src/evaluations): the multilateration detector's scoring pass with its *)
(* per-transmitter position-error filter, the ROC/threshold optimizer,     *)
(* grid search and the train-then-test evaluation pipeline.                *)
(*                                                                         *)
(* Floating-point values are modelled as exact rationals <<num, den>>.     *)
(***************************************************************************)
EXTENDS Integers, Sequences, FiniteSets, TLC

VARIABLES
    det,                  \* the detector instance (its dataclass fields)
    scenario,             \* the ScenarioData being scored
    pc,                   \* position of the running call
    scores,               \* MultilatDetector.score: local array `scores`
    kf_per_transmitter,   \* MultilatDetector.score: local dict of filters
    unique_transmissions, \* MultilatDetector.score: sorted transmission keys
    txi,                  \* index of the loop over unique_transmissions
    fedLog,               \* history: measurements fed to the filters, in order
    lsq,                  \* the least-squares solver as a function, fixed on first use
    calls,                \* number of completed score calls on this instance
    returned,             \* history: (scenario, returned array) of completed calls
    train_scenarios,      \* the training scenarios handed to the optimizer
    opt_result,           \* the OptimizationResult of the training phase
    found,                \* the last find_threshold_for_fpr / _tpr answer
    ev,                   \* evaluate_detector: its argument threshold and locals
    eval_result,          \* the EvaluationResult
    grid,                 \* grid_search: its arguments and locals
    files,                \* the CSV tables read from a data directory so far
    exc,                  \* the exception that ended the run, if any
    artifact              \* the JSON text written to output_path

scoreVars == <<scenario, scores, kf_per_transmitter, unique_transmissions,
               txi, fedLog, lsq, calls, returned>>

evalVars == <<train_scenarios, opt_result, found, ev, eval_result, grid>>

ioVars == <<files, exc, artifact>>

vars == <<det, pc, scoreVars, evalVars, ioVars>>

\* ------------------------------------------------------------------------
\* Bounds of the model
\* ------------------------------------------------------------------------
MaxBursts == 2
MaxCalls == 3
MaxEvents == 4
MaxTestScenarios == 2
MaxCandidates == 2
MaxFiles == 2
MaxUpdates == 3

\* ------------------------------------------------------------------------
\* Exact rational arithmetic standing for the program's float arithmetic
\* ------------------------------------------------------------------------
Abs(a) == IF a < 0 THEN -a ELSE a

RECURSIVE Gcd(_, _)
Gcd(a, b) == IF b = 0 THEN a ELSE Gcd(b, a % b)

Rat(n, d) ==
    LET g == Gcd(Abs(n), Abs(d))
        s == IF d < 0 THEN -1 ELSE 1
    IN  <<(s * n) \div g, (s * d) \div g>>

RInt(n) == <<n, 1>>
RZero == <<0, 1>>
RAdd(a, b) ==
    LET g == Gcd(a[2], b[2])
    IN  Rat(a[1] * (b[2] \div g) + b[1] * (a[2] \div g), (a[2] \div g) * b[2])
RNeg(a) == <<-a[1], a[2]>>
RSub(a, b) == RAdd(a, RNeg(b))
RMul(a, b) ==
    LET x == Rat(a[1], b[2])
        y == Rat(b[1], a[2])
    IN  <<x[1] * y[1], x[2] * y[2]>>
RDiv(a, b) == RMul(a, Rat(b[2], b[1]))
RLt(a, b) == a[1] * b[2] < b[1] * a[2]
RLe(a, b) == a[1] * b[2] <= b[1] * a[2]

\* ------------------------------------------------------------------------
\* Sequence helpers
\* ------------------------------------------------------------------------
Range(s) == {s[i] : i \in DOMAIN s}

RECURSIVE Flatten(_)
Flatten(ss) == IF ss = <<>> THEN <<>> ELSE Head(ss) \o Flatten(Tail(ss))

SeqsUpTo(S, n) == UNION {[1..k -> S] : k \in 0..n}

\* ------------------------------------------------------------------------
\* ScenarioData: the arrays of one scenario, row by row.  The field rssi of
\* a row stands for the row's whole measurement (rssi, rx_pos, rid_pos).
\* ------------------------------------------------------------------------
\* a missing float: no rational has denominator 0
NaN == <<0, 0>>

FederateHostIds == {1, 2, 3, 4}

\* Receptions of one transmission that arrive together: the receiving hosts
\* in row order.  Hosts 1..4 are federates, host 5 is not.
HostLists ==
    {<<1, 2, 3, 4>>, <<1, 2, 3>>, <<1, 1, 2, 3>>, <<4>>, <<5>>}

TransmissionKeys == {<<1, 1>>, <<1, 2>>, <<2, 1>>}

Bursts == [key : TransmissionKeys, hosts : HostLists]

BurstRows(b) ==
    [i \in 1..Len(b.hosts) |->
        [time          |-> b.key[2],
         host_id       |-> b.hosts[i],
         serial_number |-> b.key[1],
         rid_timestamp |-> b.key[2],
         is_spoofed    |-> b.key[1] = 2,
         rssi          |-> -(50 + 10 * b.key[1] + b.key[2] + b.hosts[i]),
         kf_nis        |-> IF b.hosts[i] = 1 THEN NaN ELSE RInt(b.hosts[i])]]

ScenarioOf(bs) ==
    [rows |-> Flatten([i \in 1..Len(bs) |-> BurstRows(bs[i])]),
     federate_host_ids |-> FederateHostIds]

Scenarios == {ScenarioOf(bs) : bs \in SeqsUpTo(Bursts, MaxBursts)}

\* scenarios of one burst, scored repeatedly by one detector instance
RepeatScenarios ==
    {ScenarioOf(<<b>>) :
        b \in [key : TransmissionKeys, hosts : {<<1, 2, 3, 4>>, <<1, 2, 3>>}]}

\* scenarios of one transmitter heard by one receiver, for the metrics:
\* each row has its label and its precomputed kf_nis, times ascend
EvalRows(nis) == [is_spoofed : BOOLEAN, kf_nis : nis]

EvalScenarioOf(rs) ==
    [rows |-> [i \in 1..Len(rs) |->
        [time          |-> i,
         host_id       |-> 1,
         serial_number |-> 1,
         rid_timestamp |-> i,
         is_spoofed    |-> rs[i].is_spoofed,
         rssi          |-> -60,
         kf_nis        |-> rs[i].kf_nis]],
     federate_host_ids |-> FederateHostIds]

TrainScenarios ==
    {EvalScenarioOf(rs) : rs \in SeqsUpTo(EvalRows({NaN, RInt(1), RInt(2)}), MaxEvents)}

SmallScenarios ==
    {EvalScenarioOf(rs) : rs \in SeqsUpTo(EvalRows({NaN, RInt(1)}), 2)}

\* test scenarios: of two rows, only the spoofer flagged at its second event
\* and the spoofer that starts at the second event and is never flagged
TestScenarios ==
    {EvalScenarioOf(rs) : rs \in
        {r \in SeqsUpTo(EvalRows({NaN, RInt(1)}), 2) :
            Len(r) = 2 => r \in {<<[is_spoofed |-> TRUE, kf_nis |-> NaN],
                                   [is_spoofed |-> TRUE, kf_nis |-> RInt(1)]>>,
                                 <<[is_spoofed |-> FALSE, kf_nis |-> NaN],
                                   [is_spoofed |-> TRUE, kf_nis |-> NaN]>>}}}

n_events(sc) == Len(sc.rows)

n_spoofed(sc) == Cardinality({i \in 1..n_events(sc) : sc.rows[i].is_spoofed})

\* ------------------------------------------------------------------------
\* PositionErrorKF
\* ------------------------------------------------------------------------
InitialEstimate == 0
InitialCovariance == 1000

PositionErrorKF(process_noise, measurement_noise) ==
    [Q |-> process_noise, R |-> measurement_noise,
     x |-> RInt(InitialEstimate), P |-> RInt(InitialCovariance)]

\* PositionErrorKF(...) with all four arguments given
PositionErrorKFWith(process_noise, measurement_noise, initial_estimate, initial_covariance) ==
    [Q |-> process_noise, R |-> measurement_noise,
     x |-> initial_estimate, P |-> initial_covariance]

\* update with the innovation left unsquared in the detection statistic
KfUpdateSignedStatistic(kf, measurement) ==
    LET x_pred == kf.x
        P_pred == RAdd(kf.P, kf.Q)
        innovation == RSub(measurement, x_pred)
        S == RAdd(P_pred, kf.R)
        nis == RDiv(innovation, S)
        K == RDiv(P_pred, S)
        x_new == RAdd(x_pred, RMul(K, innovation))
        P_new == RMul(RSub(RInt(1), K), P_pred)
    IN  [nis |-> nis, filtered_error |-> x_new, innovation |-> innovation,
         kf |-> [kf EXCEPT !.x = x_new, !.P = P_new]]

\* update with the gain taken against the measurement noise alone
KfUpdateGainOverR(kf, measurement) ==
    LET x_pred == kf.x
        P_pred == RAdd(kf.P, kf.Q)
        innovation == RSub(measurement, x_pred)
        S == RAdd(P_pred, kf.R)
        nis == RDiv(RMul(innovation, innovation), S)
        K == RDiv(P_pred, kf.R)
        x_new == RAdd(x_pred, RMul(K, innovation))
        P_new == RMul(RSub(RInt(1), K), P_pred)
    IN  [nis |-> nis, filtered_error |-> x_new, innovation |-> innovation,
         kf |-> [kf EXCEPT !.x = x_new, !.P = P_new]]

\* update with the process noise counted into the innovation covariance twice
KfUpdateProcessNoiseTwice(kf, measurement) ==
    LET x_pred == kf.x
        P_pred == RAdd(kf.P, kf.Q)
        innovation == RSub(measurement, x_pred)
        S == RAdd(RAdd(P_pred, kf.Q), kf.R)
        nis == RDiv(RMul(innovation, innovation), S)
        K == RDiv(P_pred, S)
        x_new == RAdd(x_pred, RMul(K, innovation))
        P_new == RMul(RSub(RInt(1), K), P_pred)
    IN  [nis |-> nis, filtered_error |-> x_new, innovation |-> innovation,
         kf |-> [kf EXCEPT !.x = x_new, !.P = P_new]]

\* update(measurement): the returned tuple and the filter after the call
KfUpdate(kf, measurement) ==
    LET x_pred == kf.x
        P_pred == RAdd(kf.P, kf.Q)
        innovation == RSub(measurement, x_pred)
        S == RAdd(P_pred, kf.R)
        nis == RDiv(RMul(innovation, innovation), S)
        K == RDiv(P_pred, S)
        x_new == RAdd(x_pred, RMul(K, innovation))
        P_new == RMul(RSub(RInt(1), K), P_pred)
    IN  [nis |-> nis, filtered_error |-> x_new, innovation |-> innovation,
         kf |-> [kf EXCEPT !.x = x_new, !.P = P_new]]

\* ------------------------------------------------------------------------
\* MultilatDetector
\* ------------------------------------------------------------------------
MultilatDetectors ==
    [name : {"Multilateration"},
     min_federates : {3, 4}, use_filtered_error : BOOLEAN,
     kf_process_noise : {RInt(1)}, kf_measurement_noise : {RInt(2)}]

MinMeasurements == 4
CostTolerance == 100

\* What scipy's least_squares can do on one input: raise, or return a result
\* with a success flag, a final cost and a solution x; dist is the distance
\* of the solution's position from the claimed position.
Raised == [raised |-> TRUE, success |-> FALSE, cost |-> 0, dist |-> 0]

LeastSquaresOutcomes ==
    {Raised, [raised |-> FALSE, success |-> FALSE, cost |-> 100, dist |-> 0]}
    \cup [raised : {FALSE}, success : {TRUE}, cost : {100}, dist : {0, 1}]
    \cup [raised : {FALSE}, success : {FALSE}, cost : {50}, dist : {0, 1}]

\* the (estimated_pos, estimated_tx_power) pair, or (None, None)
NoEstimate == [found |-> FALSE, dist |-> 0]
Estimate(d) == [found |-> TRUE, dist |-> d]

\* no minimum: the solver is run on however few measurements there are
ReachesSolverAlways(n) == TRUE

\* "if n < 4: return None, None": the solver is reached with 4 measurements
\* or more
ReachesSolver(n) == ~ (n < MinMeasurements)

\* the estimate accepted on the solver's success flag alone
MultilaterateSuccessOnly(n, out) ==
    IF n < MinMeasurements THEN NoEstimate
    ELSE IF out.raised THEN NoEstimate
    ELSE IF out.success THEN Estimate(out.dist)
    ELSE NoEstimate

\* _multilaterate_with_tx_power, given what least_squares does on its input:
\* the estimate (here its distance from the claimed position) or None
MultilaterateWithTxPower(n, out) ==
    IF ~ ReachesSolver(n) THEN NoEstimate
    ELSE IF out.raised THEN NoEstimate
    ELSE IF out.success \/ out.cost < CostTolerance THEN Estimate(out.dist)
    ELSE NoEstimate

\* transmission_events: the keys in first-occurrence order (dict insertion order)
RECURSIVE FirstOccurrenceKeys(_, _)
FirstOccurrenceKeys(rows, seen) ==
    IF rows = <<>> THEN <<>>
    ELSE LET k == <<Head(rows).serial_number, Head(rows).rid_timestamp>>
         IN  IF k \in seen THEN FirstOccurrenceKeys(Tail(rows), seen)
             ELSE <<k>> \o FirstOccurrenceKeys(Tail(rows), seen \cup {k})

\* sorted(keys, key=lambda x: x[1]): Python's sort is stable
RECURSIVE InsertByRidTs(_, _)
InsertByRidTs(k, s) ==
    IF s = <<>> THEN <<k>>
    ELSE IF k[2] <= Head(s)[2] THEN <<k>> \o s
    ELSE <<Head(s)>> \o InsertByRidTs(k, Tail(s))

RECURSIVE SortedByRidTs(_)
SortedByRidTs(keys) ==
    IF keys = <<>> THEN <<>>
    ELSE InsertByRidTs(Head(keys), SortedByRidTs(Tail(keys)))

\* the keys left in dict order
UniqueTransmissionsUnsorted(sc) == FirstOccurrenceKeys(sc.rows, {})

UniqueTransmissions(sc) == SortedByRidTs(FirstOccurrenceKeys(sc.rows, {}))

\* transmission_events[(sn, rid_ts)]: the event indices of a transmission
Indices(sc, key) ==
    {i \in 1..n_events(sc) :
        <<sc.rows[i].serial_number, sc.rows[i].rid_timestamp>> = key}

\* every index of the transmission, federate or not
FederateIndicesUnfiltered(sc, key) == Indices(sc, key)

\* federate_indices, as the ascending list of indices
FederateIndices(sc, key) ==
    {i \in Indices(sc, key) : sc.rows[i].host_id \in sc.federate_host_ids}

RECURSIVE AscendingSeq(_)
AscendingSeq(S) ==
    IF S = {} THEN <<>>
    ELSE LET m == CHOOSE x \in S : \A y \in S : x <= y
         IN  <<m>> \o AscendingSeq(S \ {m})

\* the arguments handed to the solver for one transmission
SolverInput(sc, key) ==
    LET fi == AscendingSeq(FederateIndices(sc, key))
    IN  [i \in 1..Len(fi) |-> <<sc.rows[fi[i]].host_id, sc.rows[fi[i]].rssi>>]

\* the coverage test of the loop body
EnoughFederates(d, sc, key) ==
    ~ (Cardinality(FederateIndices(sc, key)) < d.min_federates)

\* the filters kept from the previous call, as an instance attribute would be
ScoreLocalsKeepingFilters(sc, left_over) ==
    [scores |-> [i \in 1..n_events(sc) |-> RZero],
     kf_per_transmitter |-> left_over.kf_per_transmitter,
     unique_transmissions |-> UniqueTransmissions(sc)]

\* the locals score() sets up before its loop; left_over is what the previous
\* call left in them
ScoreLocals(sc, left_over) ==
    [scores |-> [i \in 1..n_events(sc) |-> RZero],
     kf_per_transmitter |-> <<>>,
     unique_transmissions |-> UniqueTransmissions(sc)]

\* the score written to the federate events only
BroadcastFederatesOnly(sc, key, old, score) ==
    [i \in DOMAIN old |-> IF i \in FederateIndices(sc, key) THEN score ELSE old[i]]

\* "Apply same score to all RX events from this transmission"
Broadcast(sc, key, old, score) ==
    [i \in DOMAIN old |-> IF i \in Indices(sc, key) THEN score ELSE old[i]]

\* ------------------------------------------------------------------------
\* KalmanFilterDetector
\* ------------------------------------------------------------------------
KalmanFilterDetector == [name |-> "KalmanFilter"]

\* the infinities of the float format, as ratios with denominator 0
PosInf == <<1, 0>>
NegInf == <<-1, 0>>

\* the largest finite float; the largest number of the model's arithmetic
\* stands for it
FloatMax == <<2147483647, 1>>
FloatMin == <<-2147483647, 1>>

\* np.nan_to_num(x, nan=0.0): NaN becomes 0 and, posinf and neginf being left
\* at their defaults, the infinities become the largest and the most
\* negative finite float
NanToNum(x) ==
    IF x = NaN THEN RZero
    ELSE IF x = PosInf THEN FloatMax
    ELSE IF x = NegInf THEN FloatMin
    ELSE x

\* score(): a copy of kf_nis passed through nan_to_num
KalmanScores(sc) ==
    [i \in 1..n_events(sc) |-> NanToNum(sc.rows[i].kf_nis)]

\* ------------------------------------------------------------------------
\* metrics.py
\* ------------------------------------------------------------------------
None == [kind |-> "None"]
ValueError == [kind |-> "ValueError"]

RECURSIVE Count(_, _)
Count(s, v) ==
    IF s = <<>> THEN 0 ELSE (IF Head(s) = v THEN 1 ELSE 0) + Count(Tail(s), v)

RECURSIVE RMaxOf(_)
RMaxOf(s) ==
    IF Len(s) = 1 THEN s[1]
    ELSE LET m == RMaxOf(Tail(s)) IN IF RLt(Head(s), m) THEN m ELSE Head(s)

RECURSIVE RMinOf(_)
RMinOf(s) ==
    IF Len(s) = 1 THEN s[1]
    ELSE LET m == RMinOf(Tail(s)) IN IF RLt(m, Head(s)) THEN m ELSE Head(s)

\* the sort without the minus sign: ascending scores
ArgsortAscending(sc) ==
    {p \in Permutations(1..Len(sc)) :
        \A i \in 1..(Len(sc) - 1) : RLe(sc[p[i]], sc[p[i + 1]])}

\* np.argsort(-scores): the default sort kind is not stable, so every order
\* of equal scores is a possible result
ArgsortDescending(sc) ==
    {p \in Permutations(1..Len(sc)) :
        \A i \in 1..(Len(sc) - 1) : RLe(sc[p[i + 1]], sc[p[i]])}

\* np.cumsum of a boolean array
CumSum(b) == [i \in DOMAIN b |-> Count(SubSeq(b, 1, i), TRUE)]

\* np.trapz(y, x)
RECURSIVE Trapz(_, _)
Trapz(y, x) ==
    IF Len(x) < 2 THEN RZero
    ELSE RAdd(RMul(RSub(x[2], x[1]), RDiv(RAdd(y[2], y[1]), RInt(2))),
              Trapz(Tail(y), Tail(x)))

\* compute_roc_auc(y_true, scores), with sorted_indices the result of argsort
ComputeRocAuc(y_true, sc, sorted_indices) ==
    LET n == Len(y_true)
        y_sorted == [i \in 1..n |-> y_true[sorted_indices[i]]]
        scores_sorted == [i \in 1..n |-> sc[sorted_indices[i]]]
        n_pos == Count(y_true, TRUE)
        n_neg == n - n_pos
    IN  IF n_pos = 0 \/ n_neg = 0
        THEN IF n = 0 THEN ValueError  \* scores.max() of an empty array
             ELSE [kind |-> "roc", auc |-> Rat(1, 2),
                   fpr |-> <<RInt(0), RInt(1)>>, tpr |-> <<RInt(0), RInt(1)>>,
                   thresholds |-> <<RMaxOf(sc), RMinOf(sc)>>]
        ELSE LET tps == CumSum(y_sorted)
                 fps == CumSum([i \in 1..n |-> ~ y_sorted[i]])
                 tpr == <<RInt(0)>> \o [i \in 1..n |-> Rat(tps[i], n_pos)]
                 fpr == <<RInt(0)>> \o [i \in 1..n |-> Rat(fps[i], n_neg)]
                 thresholds == <<RAdd(scores_sorted[1], RInt(1))>> \o scores_sorted
             IN  [kind |-> "roc", auc |-> Trapz(tpr, fpr),
                  fpr |-> fpr, tpr |-> tpr, thresholds |-> thresholds]

\* the comparison made strict
PredictedStrict(sc, threshold) == [i \in DOMAIN sc |-> RLt(threshold, sc[i])]

\* y_pred = scores >= threshold
Predicted(sc, threshold) == [i \in DOMAIN sc |-> RLe(threshold, sc[i])]

\* compute_confusion_at_threshold
ComputeConfusionAtThreshold(y_true, sc, threshold) ==
    LET y_pred == Predicted(sc, threshold)
        n(a, b) == Cardinality({i \in DOMAIN y_true : y_true[i] = a /\ y_pred[i] = b})
        tp == n(TRUE, TRUE)
        tn == n(FALSE, FALSE)
        fp == n(FALSE, TRUE)
        fn == n(TRUE, FALSE)
    IN  [tp |-> tp, tn |-> tn, fp |-> fp, fn |-> fn,
         tpr |-> IF tp + fn > 0 THEN Rat(tp, tp + fn) ELSE RZero,
         fpr |-> IF fp + tn > 0 THEN Rat(fp, fp + tn) ELSE RZero]

\* the latency measured to the first alarm, spoofed or not
ComputeTimeToDetectionAnyAlarm(times, y_true, sc, threshold) ==
    LET y_pred == Predicted(sc, threshold)
        spoofed_indices == {i \in DOMAIN y_true : y_true[i]}
        tp_indices == {i \in DOMAIN y_true : y_pred[i]}
        first(S) == CHOOSE i \in S : \A j \in S : i <= j
    IN  IF spoofed_indices = {} THEN None
        ELSE IF tp_indices = {} THEN None
        ELSE [kind |-> "float",
              value |-> RSub(times[first(tp_indices)], times[first(spoofed_indices)])]

\* compute_time_to_detection
ComputeTimeToDetection(times, y_true, sc, threshold) ==
    LET y_pred == Predicted(sc, threshold)
        spoofed_indices == {i \in DOMAIN y_true : y_true[i]}
        tp_indices == {i \in DOMAIN y_true : y_true[i] /\ y_pred[i]}
        first(S) == CHOOSE i \in S : \A j \in S : i <= j
    IN  IF spoofed_indices = {} THEN None
        ELSE IF tp_indices = {} THEN None
        ELSE [kind |-> "float",
              value |-> RSub(times[first(tp_indices)], times[first(spoofed_indices)])]

\* compute_metrics
ComputeMetrics(times, y_true, sc, threshold, sorted_indices) ==
    LET roc == ComputeRocAuc(y_true, sc, sorted_indices)
        c == ComputeConfusionAtThreshold(y_true, sc, threshold)
    IN  IF roc = ValueError THEN ValueError
        ELSE [kind |-> "DetectionMetrics", auc |-> roc.auc, fpr |-> c.fpr,
              tpr |-> c.tpr, threshold |-> threshold,
              time_to_detection |-> ComputeTimeToDetection(times, y_true, sc, threshold),
              true_positives |-> c.tp, true_negatives |-> c.tn,
              false_positives |-> c.fp, false_negatives |-> c.fn]

\* ------------------------------------------------------------------------
\* optimize.py
\* ------------------------------------------------------------------------
\* Detector.score as a function of the scenario: KalmanFilterDetector, or any
\* other Detector given by the array it returns on the scenario
DetectorScores(d, sc) ==
    IF d.name = "KalmanFilter" THEN KalmanScores(sc)
    ELSE [i \in 1..n_events(sc) |-> d.table[i]]

\* Detector.params
Params(d) ==
    IF d.name = "KalmanFilter" THEN <<>>
    ELSE IF d.name = "Multilateration"
    THEN [min_federates |-> d.min_federates,
          kf_process_noise |-> d.kf_process_noise,
          kf_measurement_noise |-> d.kf_measurement_noise,
          use_filtered_error |-> d.use_filtered_error]
    ELSE d.params

\* collect_scores_and_labels: (times, labels, scores) concatenated
CollectScoresAndLabels(d, scenarios, federate_only) ==
    LET kept(sc) ==
            IF federate_only
            THEN AscendingSeq({i \in 1..n_events(sc) :
                                  sc.rows[i].host_id \in sc.federate_host_ids})
            ELSE [i \in 1..n_events(sc) |-> i]
        col(sc, f(_, _)) == [k \in 1..Len(kept(sc)) |-> f(sc, kept(sc)[k])]
        time_of(sc, i) == RInt(sc.rows[i].time)
        label_of(sc, i) == sc.rows[i].is_spoofed
        score_of(sc, i) == DetectorScores(d, sc)[i]
    IN  IF scenarios = <<>> THEN ValueError  \* np.concatenate of an empty list
        ELSE [kind |-> "arrays",
              times |-> Flatten([k \in DOMAIN scenarios |-> col(scenarios[k], time_of)]),
              labels |-> Flatten([k \in DOMAIN scenarios |-> col(scenarios[k], label_of)]),
              scores |-> Flatten([k \in DOMAIN scenarios |-> col(scenarios[k], score_of)])]

\* np.argmax: the first index of the largest value
ArgMax(s) ==
    CHOOSE i \in DOMAIN s :
        /\ \A j \in DOMAIN s : RLe(s[j], s[i])
        /\ \A j \in DOMAIN s : j < i => RLt(s[j], s[i])

\* optimize_threshold on the collected arrays
OptimizeThreshold(d, labels, sc, sorted_indices) ==
    LET roc == ComputeRocAuc(labels, sc, sorted_indices)
    IN  IF roc = ValueError THEN ValueError
        ELSE LET j_statistic == [i \in DOMAIN roc.tpr |-> RSub(roc.tpr[i], roc.fpr[i])]
                 best_idx == ArgMax(j_statistic)
             IN  [kind |-> "OptimizationResult",
                  detector_name |-> d.name,
                  best_threshold |-> roc.thresholds[best_idx],
                  best_auc |-> roc.auc,
                  best_params |-> Params(d),
                  fpr_curve |-> roc.fpr,
                  tpr_curve |-> roc.tpr,
                  thresholds |-> roc.thresholds]

\* OptimizationResult.find_threshold_for_fpr
FindThresholdForFpr(r, target_fpr) ==
    LET valid == {i \in DOMAIN r.fpr_curve : RLe(r.fpr_curve[i], target_fpr)}
    IN  IF valid = {} THEN r.thresholds[Len(r.thresholds)]
        ELSE r.thresholds[CHOOSE i \in valid : \A j \in valid : i <= j]

\* OptimizationResult.find_threshold_for_tpr
FindThresholdForTpr(r, target_tpr) ==
    LET valid == {i \in DOMAIN r.tpr_curve : RLe(target_tpr, r.tpr_curve[i])}
    IN  IF valid = {} THEN r.thresholds[1]
        ELSE r.thresholds[CHOOSE i \in valid : \A j \in valid : j <= i]

\* one filter for all transmitters: whichever filter exists is used
FilterOfAnyTransmitter(filters, sn, d) ==
    IF DOMAIN filters # {}
    THEN filters[CHOOSE s \in DOMAIN filters : \A t \in DOMAIN filters : s <= t]
    ELSE PositionErrorKF(d.kf_process_noise, d.kf_measurement_noise)

\* "Get or create KF for this transmitter"
FilterOf(filters, sn, d) ==
    IF sn \in DOMAIN filters THEN filters[sn]
    ELSE PositionErrorKF(d.kf_process_noise, d.kf_measurement_noise)

\* ------------------------------------------------------------------------
\* Actions: one MultilatDetector.score call, loop iteration by loop iteration
\* ------------------------------------------------------------------------
ScoreBegin(S, limit) ==
    /\ pc = "idle"
    /\ det.name = "Multilateration"
    /\ calls < limit
    /\ \E sc \in S :
        LET l == ScoreLocals(sc, [scores |-> scores,
                                  kf_per_transmitter |-> kf_per_transmitter,
                                  unique_transmissions |-> unique_transmissions])
        IN  /\ scenario' = sc
            /\ scores' = l.scores
            /\ kf_per_transmitter' = l.kf_per_transmitter
            /\ unique_transmissions' = l.unique_transmissions
    /\ txi' = 1
    /\ fedLog' = <<>>
    /\ pc' = "loop"
    /\ UNCHANGED <<det, lsq, calls, returned, evalVars, ioVars>>

ScoreTransmission ==
    /\ pc = "loop"
    /\ txi <= Len(unique_transmissions)
    /\ LET key == unique_transmissions[txi]
           sn == key[1]
           input == SolverInput(scenario, key)
           solved == EnoughFederates(det, scenario, key)
                        /\ ReachesSolver(Len(input))
       IN  \E out \in LeastSquaresOutcomes :
            /\ (solved /\ input \in DOMAIN lsq) => out = lsq[input]
            /\ ~ solved => out = Raised
            /\ lsq' = IF solved THEN (input :> out) @@ lsq ELSE lsq
            /\ LET estimate == IF EnoughFederates(det, scenario, key)
                                 THEN MultilaterateWithTxPower(Len(input), out)
                                 ELSE NoEstimate
               IN  IF ~ estimate.found
                   THEN UNCHANGED <<scores, kf_per_transmitter, fedLog>>
                   ELSE LET raw_error == RInt(estimate.dist)
                            kf == FilterOf(kf_per_transmitter, sn, det)
                            u == KfUpdate(kf, raw_error)
                            score == IF det.use_filtered_error
                                     THEN u.filtered_error ELSE u.nis
                        IN  /\ kf_per_transmitter' =
                                  (sn :> u.kf) @@ kf_per_transmitter
                            /\ scores' = Broadcast(scenario, key, scores, score)
                            /\ fedLog' = Append(fedLog,
                                  [serial_number |-> sn, rid_timestamp |-> key[2],
                                   measurement |-> raw_error, before |-> kf,
                                   score |-> score])
    /\ txi' = txi + 1
    /\ UNCHANGED <<det, scenario, pc, unique_transmissions, calls, returned, evalVars, ioVars>>

ScoreReturn ==
    /\ pc = "loop"
    /\ txi > Len(unique_transmissions)
    /\ pc' = "idle"
    /\ calls' = calls + 1
    /\ returned' = Append(returned, [scenario |-> scenario, scores |-> scores])
    /\ UNCHANGED <<det, scenario, scores, kf_per_transmitter,
                   unique_transmissions, txi, fedLog, lsq, evalVars, ioVars>>

\* the scenario with the events of all transmitters but sn removed
OnlyTransmitter(sc, sn) ==
    [sc EXCEPT !.rows = SelectSeq(@, LAMBDA r : r.serial_number = sn)]

SerialNumbers == {k[1] : k \in TransmissionKeys}

\* scenarios of three bursts, with full coverage or one federate short
FrameScenarios ==
    {ScenarioOf(bs) :
        bs \in [1..3 -> [key : TransmissionKeys,
                         hosts : {<<1, 2, 3, 4>>, <<1, 2, 3>>}]]}

\* what the detector is given: first a scenario, then the same scenario with
\* only one transmitter's events left
ScenarioThenOneTransmitter ==
    IF returned = <<>> THEN FrameScenarios
    ELSE {OnlyTransmitter(returned[1].scenario, sn) : sn \in SerialNumbers}

\* KalmanFilterDetector.score, a single step
KalmanScore(S, limit) ==
    /\ pc = "idle"
    /\ det.name = "KalmanFilter"
    /\ calls < limit
    /\ \E sc \in S :
        /\ scenario' = sc
        /\ scores' = KalmanScores(sc)
        /\ returned' = Append(returned, [scenario |-> sc, scores |-> KalmanScores(sc)])
    /\ calls' = calls + 1
    /\ UNCHANGED <<det, pc, kf_per_transmitter, unique_transmissions, txi,
                   fedLog, lsq, evalVars, ioVars>>

\* nothing scored yet
InitScoreVars ==
    /\ scenario = ScenarioOf(<<>>)
    /\ scores = <<>>
    /\ kf_per_transmitter = <<>>
    /\ unique_transmissions = <<>>
    /\ txi = 1
    /\ fedLog = <<>>
    /\ lsq = <<>>
    /\ calls = 0
    /\ returned = <<>>

\* nothing optimized or evaluated yet
InitEvalVars ==
    /\ train_scenarios = <<>>
    /\ opt_result = None
    /\ found = None
    /\ ev = None
    /\ eval_result = None
    /\ grid = None

\* nothing read or written yet
InitIoVars ==
    /\ files = <<>>
    /\ exc = None
    /\ artifact = None

InitScore(D) ==
    /\ det \in D
    /\ pc = "idle"
    /\ InitScoreVars
    /\ InitIoVars
    /\ InitEvalVars

\* one scoring pass of a fresh MultilatDetector over any scenario
Init == InitScore(MultilatDetectors)

Next ==
    \/ ScoreBegin(Scenarios, 1)
    \/ ScoreTransmission
    \/ ScoreReturn

Spec == Init /\ [][Next]_vars

\* one detector instance scoring several scenarios one after the other
\* a scenario scored whole, then with one transmitter's events only
NextFrame ==
    \/ ScoreBegin(ScenarioThenOneTransmitter, 2)
    \/ ScoreTransmission
    \/ ScoreReturn

SpecFrame == Init /\ [][NextFrame]_vars

InitRepeat == InitScore(MultilatDetectors \cup {KalmanFilterDetector})

NextRepeat ==
    \/ ScoreBegin(RepeatScenarios, MaxCalls)
    \/ ScoreTransmission
    \/ ScoreReturn
    \/ KalmanScore(RepeatScenarios, MaxCalls)

SpecRepeat == InitRepeat /\ [][NextRepeat]_vars

\* ------------------------------------------------------------------------
\* Actions: optimize_threshold and the OptimizationResult queries
\* ------------------------------------------------------------------------
TargetRates == {RInt(0), Rat(1, 2), RInt(1)}

\* optimize_threshold(detector, train_scenarios)
RunOptimizeThreshold ==
    /\ pc = "train"
    /\ LET c == CollectScoresAndLabels(det, train_scenarios, FALSE)
       IN  IF c = ValueError
           THEN opt_result' = ValueError /\ pc' = "raised"
           ELSE \E p \in ArgsortDescending(c.scores) :
                  LET r == OptimizeThreshold(det, c.labels, c.scores, p)
                  IN  /\ opt_result' = r
                      /\ pc' = IF r = ValueError THEN "raised" ELSE "optimized"
    /\ UNCHANGED <<det, scoreVars, ioVars, train_scenarios, found, ev, eval_result, grid>>

\* opt_result.find_threshold_for_fpr(target_fpr)
QueryFpr ==
    /\ pc = "optimized"
    /\ \E t \in TargetRates :
        found' = [query |-> "fpr", target |-> t,
                  threshold |-> FindThresholdForFpr(opt_result, t)]
    /\ UNCHANGED <<det, pc, scoreVars, ioVars, train_scenarios, opt_result, ev,
                   eval_result, grid>>

\* opt_result.find_threshold_for_tpr(target_tpr)
QueryTpr ==
    /\ pc = "optimized"
    /\ \E t \in TargetRates :
        found' = [query |-> "tpr", target |-> t,
                  threshold |-> FindThresholdForTpr(opt_result, t)]
    /\ UNCHANGED <<det, pc, scoreVars, ioVars, train_scenarios, opt_result, ev,
                   eval_result, grid>>

\* a KalmanFilterDetector and one training directory of at most one scenario
InitRoc ==
    /\ det = KalmanFilterDetector
    /\ pc = "train"
    /\ InitScoreVars
    /\ InitIoVars
    /\ train_scenarios \in {<<>>} \cup {<<sc>> : sc \in TrainScenarios}
    /\ opt_result = None
    /\ found = None
    /\ ev = None
    /\ eval_result = None
    /\ grid = None

NextRoc ==
    \/ RunOptimizeThreshold
    \/ QueryFpr
    \/ QueryTpr

SpecRoc == InitRoc /\ [][NextRoc]_vars

\* ------------------------------------------------------------------------
\* compute_roc_auc on the same events in two orders
\* ------------------------------------------------------------------------
\* events as (label, score) pairs; equal scores are what one transmission's
\* events and all zero-scored events have
LabeledScores == [label : BOOLEAN, score : {RZero, RInt(1)}]

AucInputs ==
    {a \in SeqsUpTo(LabeledScores, MaxEvents - 1) : a # <<>>}

Labels(a) == [i \in DOMAIN a |-> a[i].label]

ScoresIn(a) == [i \in DOMAIN a |-> a[i].score]

\* compute_roc_auc(labels, scores) on a and on a reordering b of a.  argsort
\* sees the scores only, so on equal score arrays it returns the same indices
RocOfReordering ==
    /\ pc = "auc"
    /\ \E a \in AucInputs :
        \E q \in Permutations(DOMAIN a) :
            LET b == [i \in DOMAIN a |-> a[q[i]]]
            IN  \E p1 \in ArgsortDescending(ScoresIn(a)),
                   p2 \in ArgsortDescending(ScoresIn(b)) :
                    /\ ScoresIn(a) = ScoresIn(b) => p1 = p2
                    /\ found' = [events |-> a, reordered |-> b,
                                 first |-> ComputeRocAuc(Labels(a), ScoresIn(a), p1),
                                 second |-> ComputeRocAuc(Labels(b), ScoresIn(b), p2)]
    /\ pc' = "compared"
    /\ UNCHANGED <<det, scoreVars, ioVars, train_scenarios, opt_result, ev,
                   eval_result, grid>>

InitAuc ==
    /\ det = None
    /\ pc = "auc"
    /\ InitScoreVars
    /\ InitIoVars
    /\ InitEvalVars

NextAuc == RocOfReordering

SpecAuc == InitAuc /\ [][NextAuc]_vars

\* ------------------------------------------------------------------------
\* Actions: run_evaluation = optimize_threshold on the training set, then
\* evaluate_detector over the test scenarios, one loop iteration per step
\* ------------------------------------------------------------------------
\* the threshold run_evaluation hands to evaluate_detector
ThresholdPassed(r) == r.best_threshold

\* metrics at a threshold tuned again on the test events
EvaluationMetricsRetuned(d, times, labels, sc, threshold, sorted_indices) ==
    LET r == OptimizeThreshold(d, labels, sc, sorted_indices)
    IN  IF r = ValueError THEN ValueError
        ELSE ComputeMetrics(times, labels, sc, r.best_threshold, sorted_indices)

\* the compute_metrics call of evaluate_detector
EvaluationMetrics(d, times, labels, sc, threshold, sorted_indices) ==
    ComputeMetrics(times, labels, sc, threshold, sorted_indices)

\* a scenario with spoofed events but no detection counted as latency 0
TtdListAfterDefaulting(ttd_list, measured, ttd) ==
    IF measured
    THEN Append(ttd_list, IF ttd # None THEN ttd.value ELSE RInt(0))
    ELSE ttd_list

\* ttd_list after one scenario: appended to only if the scenario has a
\* spoofed event and its time to detection is not None
TtdListAfter(ttd_list, measured, ttd) ==
    IF measured /\ ttd # None THEN Append(ttd_list, ttd.value) ELSE ttd_list

RECURSIVE RSum(_)
RSum(s) == IF s = <<>> THEN RZero ELSE RAdd(Head(s), RSum(Tail(s)))

\* np.sort of a list of floats
RECURSIVE RSort(_)
RSort(s) ==
    IF s = <<>> THEN <<>>
    ELSE LET m == RMinOf(s)
             k == CHOOSE i \in DOMAIN s : s[i] = m /\ \A j \in 1..(i - 1) : s[j] # m
         IN  <<m>> \o RSort(SubSeq(s, 1, k - 1) \o SubSeq(s, k + 1, Len(s)))

Float(q) == [kind |-> "float", value |-> q]

\* EvaluationResult.mean_time_to_detection
MeanTimeToDetection(r) ==
    IF r.time_to_detection_list = <<>> THEN None
    ELSE Float(RDiv(RSum(r.time_to_detection_list),
                    RInt(Len(r.time_to_detection_list))))

\* EvaluationResult.median_time_to_detection
MedianTimeToDetection(r) ==
    IF r.time_to_detection_list = <<>> THEN None
    ELSE LET sorted == RSort(r.time_to_detection_list)
             n == Len(sorted)
         IN  Float(IF n % 2 = 1 THEN sorted[(n + 1) \div 2]
                   ELSE RDiv(RAdd(sorted[n \div 2], sorted[n \div 2 + 1]), RInt(2)))

\* DetectionMetrics.accuracy
Accuracy(m) ==
    LET total == m.true_positives + m.true_negatives
                    + m.false_positives + m.false_negatives
    IN  IF total = 0 THEN RZero ELSE Rat(m.true_positives + m.true_negatives, total)

\* to_dict with the two error counts written under each other's key
DetectionMetricsToDictSwapped(m) ==
    [auc |-> Float(m.auc), fpr |-> Float(m.fpr), tpr |-> Float(m.tpr),
     threshold |-> Float(m.threshold),
     time_to_detection |-> m.time_to_detection,
     true_positives |-> m.true_positives,
     true_negatives |-> m.true_negatives,
     false_positives |-> m.false_negatives,
     false_negatives |-> m.false_positives,
     accuracy |-> Float(Accuracy(m))]

\* DetectionMetrics.to_dict
DetectionMetricsToDict(m) ==
    [auc |-> Float(m.auc), fpr |-> Float(m.fpr), tpr |-> Float(m.tpr),
     threshold |-> Float(m.threshold),
     time_to_detection |-> m.time_to_detection,
     true_positives |-> m.true_positives,
     true_negatives |-> m.true_negatives,
     false_positives |-> m.false_positives,
     false_negatives |-> m.false_negatives,
     accuracy |-> Float(Accuracy(m))]

\* EvaluationResult.to_dict
EvaluationResultToDict(r) ==
    [detector_name |-> r.detector_name,
     threshold |-> Float(r.threshold),
     params |-> r.params,
     metrics |-> DetectionMetricsToDict(r.metrics),
     mean_time_to_detection |-> MeanTimeToDetection(r),
     median_time_to_detection |-> MedianTimeToDetection(r),
     n_scenarios_with_ttd |-> Len(r.time_to_detection_list)]

\* evaluate_detector entered with the threshold of the training phase
EvaluateBegin ==
    /\ pc = "optimized"
    /\ ev' = [threshold |-> ThresholdPassed(opt_result),
              all_times |-> <<>>, all_labels |-> <<>>, all_scores |-> <<>>,
              ttd_list |-> <<>>, used |-> <<>>]
    /\ pc' = "evaluating"
    /\ UNCHANGED <<det, scoreVars, ioVars, train_scenarios, opt_result, found,
                   eval_result, grid>>

\* one iteration of the loop over the test scenarios
EvaluateScenario ==
    /\ pc = "evaluating"
    /\ Len(ev.all_times) < MaxTestScenarios
    /\ \E sc \in TestScenarios :
        LET sc_scores == DetectorScores(det, sc)
            sc_time == [i \in 1..n_events(sc) |-> RInt(sc.rows[i].time)]
            sc_labels == [i \in 1..n_events(sc) |-> sc.rows[i].is_spoofed]
            ttd == ComputeTimeToDetection(sc_time, sc_labels, sc_scores, ev.threshold)
            measured == n_spoofed(sc) > 0
        IN  ev' = [ev EXCEPT
                    !.all_times = Append(@, sc_time),
                    !.all_labels = Append(@, sc_labels),
                    !.all_scores = Append(@, sc_scores),
                    !.ttd_list = TtdListAfter(@, measured, ttd),
                    !.used = IF measured THEN Append(@, ev.threshold) ELSE @]
    /\ UNCHANGED <<det, pc, scoreVars, ioVars, train_scenarios, opt_result, found,
                   eval_result, grid>>

\* the test iterator is exhausted: concatenate, compute_metrics, return
EvaluateFinish ==
    /\ pc = "evaluating"
    /\ IF ev.all_times = <<>>
       THEN eval_result' = ValueError /\ pc' = "raised"
       ELSE LET times == Flatten(ev.all_times)
                labels == Flatten(ev.all_labels)
                sc == Flatten(ev.all_scores)
            IN  \E p \in ArgsortDescending(sc) :
                  LET metrics == EvaluationMetrics(det, times, labels, sc,
                                                   ev.threshold, p)
                  IN  IF metrics = ValueError
                      THEN eval_result' = ValueError /\ pc' = "raised"
                      ELSE /\ eval_result' =
                                [kind |-> "EvaluationResult",
                                 detector_name |-> det.name,
                                 threshold |-> ev.threshold,
                                 params |-> Params(det),
                                 metrics |-> metrics,
                                 time_to_detection_list |-> ev.ttd_list]
                           /\ pc' = "done"
    /\ UNCHANGED <<det, scoreVars, ioVars, train_scenarios, opt_result, found, ev, grid>>

\* ------------------------------------------------------------------------
\* JSON text, as json.dump writes it and json.load reads it
\* ------------------------------------------------------------------------
\* the decimal digits of a natural number
RECURSIVE Digits(_)
Digits(n) == IF n < 10 THEN <<n>> ELSE Append(Digits(n \div 10), n % 10)

\* long division of r / d, r < d: the digits after the point, split into the
\* part before the period and the period (empty if the expansion ends)
RECURSIVE Expansion(_, _, _, _)
Expansion(r, d, remainders, digits) ==
    IF r = 0 THEN [frac |-> digits, period |-> <<>>]
    ELSE IF r \in Range(remainders)
    THEN LET k == CHOOSE i \in DOMAIN remainders : remainders[i] = r
         IN  [frac |-> SubSeq(digits, 1, k - 1),
              period |-> SubSeq(digits, k, Len(digits))]
    ELSE Expansion((10 * r) % d, d, Append(remainders, r),
                   Append(digits, (10 * r) \div d))

JsonNull == [t |-> "null"]

\* an int is written as its digits
JsonInt(n) == [t |-> "int", neg |-> n < 0, whole |-> Digits(Abs(n))]

\* a float is written as the decimal text that denotes it; floats being exact
\* rationals here, that text is the decimal expansion with its period
JsonReal(q) ==
    LET x == Expansion(Abs(q[1]) % q[2], q[2], <<>>, <<>>)
    IN  [t |-> "real", neg |-> q[1] < 0, whole |-> Digits(Abs(q[1]) \div q[2]),
         frac |-> IF x.frac = <<>> /\ x.period = <<>> THEN <<0>> ELSE x.frac,
         period |-> x.period]

JsonString(s) == [t |-> "string", chars |-> s]

JsonObject(members) == [t |-> "object", members |-> members]

\* a float or None
JsonOptionalReal(f) == IF f = None THEN JsonNull ELSE JsonReal(f.value)

\* json.dump of DetectionMetrics.to_dict()
JsonOfMetrics(d) ==
    JsonObject([auc |-> JsonReal(d.auc.value), fpr |-> JsonReal(d.fpr.value),
                tpr |-> JsonReal(d.tpr.value),
                threshold |-> JsonReal(d.threshold.value),
                time_to_detection |-> JsonOptionalReal(d.time_to_detection),
                true_positives |-> JsonInt(d.true_positives),
                true_negatives |-> JsonInt(d.true_negatives),
                false_positives |-> JsonInt(d.false_positives),
                false_negatives |-> JsonInt(d.false_negatives),
                accuracy |-> JsonReal(d.accuracy.value)])

\* json.dump of EvaluationResult.to_dict(); the detectors evaluated here
\* have the empty params dict
JsonOfEvaluation(d) ==
    JsonObject([detector_name |-> JsonString(d.detector_name),
                threshold |-> JsonReal(d.threshold.value),
                params |-> JsonObject(d.params),
                metrics |-> JsonOfMetrics(d.metrics),
                mean_time_to_detection |-> JsonOptionalReal(d.mean_time_to_detection),
                median_time_to_detection |-> JsonOptionalReal(d.median_time_to_detection),
                n_scenarios_with_ttd |-> JsonInt(d.n_scenarios_with_ttd)])

\* json.dump(results, f) of run_evaluation
JsonOfResults(opt, evaluation) ==
    JsonObject([optimization |->
                    JsonObject([detector_name |-> JsonString(opt.detector_name),
                                best_threshold |-> JsonReal(opt.best_threshold),
                                best_auc |-> JsonReal(opt.best_auc),
                                best_params |-> JsonObject(opt.best_params)]),
                evaluation |-> JsonOfEvaluation(EvaluationResultToDict(evaluation))])

\* run_evaluation with an output_path: the results are written as JSON
SaveResults ==
    /\ pc = "done"
    /\ artifact' = JsonOfResults(opt_result, eval_result)
    /\ pc' = "saved"
    /\ UNCHANGED <<det, scoreVars, evalVars, files, exc>>

InitEval ==
    /\ det = KalmanFilterDetector
    /\ pc = "train"
    /\ InitScoreVars
    /\ InitIoVars
    /\ train_scenarios \in {<<>>} \cup {<<sc>> : sc \in SmallScenarios}
    /\ opt_result = None
    /\ found = None
    /\ ev = None
    /\ eval_result = None
    /\ grid = None

NextEval ==
    \/ RunOptimizeThreshold
    \/ EvaluateBegin
    \/ EvaluateScenario
    \/ EvaluateFinish
    \/ SaveResults

SpecEval == InitEval /\ [][NextEval]_vars

\* ------------------------------------------------------------------------
\* Actions: grid_search, one combination per step
\* ------------------------------------------------------------------------
\* param_grid: two parameters, each with its list of candidate values
ParamGrids ==
    {<<[i \in 1..k |-> 10 * i], [i \in 1..m |-> 2 + i]>> :
        k \in 0..MaxCandidates, m \in 1..2}

\* the training list handed to grid_search: three events of one scenario
GridTrainSets ==
    {<<EvalScenarioOf([i \in 1..3 |-> [is_spoofed |-> l[i], kf_nis |-> NaN]])>> :
        l \in {<<TRUE, FALSE, FALSE>>, <<FALSE, TRUE, FALSE>>}}

\* what the detectors made by detector_factory may score the three events
GridTables ==
    {<<RInt(2), RInt(1), RInt(0)>>, <<RInt(1), RInt(2), RInt(0)>>,
     <<RInt(0), RInt(1), RInt(2)>>, <<RInt(1), RInt(1), RInt(1)>>}

\* itertools.product(*param_values): the last list varies fastest
RECURSIVE Product(_)
Product(lists) ==
    IF lists = <<>> THEN << <<>> >>
    ELSE LET rest == Product(Tail(lists))
         IN  Flatten([i \in 1..Len(Head(lists)) |->
                        [j \in 1..Len(rest) |-> <<Head(lists)[i]>> \o rest[j]]])

InitialBestAuc == -1

\* a result that also replaces the best one on equal AUC
GridBetterOrEqual(auc, best_auc) == RLe(best_auc, auc)

\* result.best_auc > best_auc
GridBetter(auc, best_auc) == RLt(best_auc, auc)

GridSearchStep ==
    /\ pc = "grid"
    /\ grid.i <= Len(Product(grid.param_values))
    /\ LET params == Product(grid.param_values)[grid.i]
       IN  \E table \in GridTables :
             LET detector == [name |-> "Table", params |-> params, table |-> table]
                 c == CollectScoresAndLabels(detector, train_scenarios, FALSE)
             IN  \E p \in ArgsortDescending(c.scores) :
                   LET result == OptimizeThreshold(detector, c.labels, c.scores, p)
                       seen == Append(grid.evaluated,
                                      [params |-> params, result |-> result])
                   IN  /\ det' = detector
                       /\ grid' = IF GridBetter(result.best_auc, grid.best_auc)
                                  THEN [grid EXCEPT !.i = @ + 1,
                                                    !.evaluated = seen,
                                                    !.best_auc = result.best_auc,
                                                    !.best_result = result,
                                                    !.best_params = params]
                                  ELSE [grid EXCEPT !.i = @ + 1,
                                                    !.evaluated = seen]
    /\ UNCHANGED <<pc, scoreVars, ioVars, train_scenarios, opt_result, found, ev, eval_result>>

GridSearchReturn ==
    /\ pc = "grid"
    /\ grid.i > Len(Product(grid.param_values))
    /\ pc' = "grid_done"
    /\ grid' = [grid EXCEPT !.returned = <<grid.best_result, grid.best_params>>]
    /\ UNCHANGED <<det, scoreVars, ioVars, train_scenarios, opt_result, found, ev, eval_result>>

InitGrid ==
    /\ det = None
    /\ pc = "grid"
    /\ InitScoreVars
    /\ InitIoVars
    /\ train_scenarios \in GridTrainSets
    /\ opt_result = None
    /\ found = None
    /\ ev = None
    /\ eval_result = None
    /\ \E pv \in ParamGrids :
        grid = [param_values |-> pv, i |-> 1, best_result |-> None,
                best_params |-> None, best_auc |-> RInt(InitialBestAuc),
                evaluated |-> <<>>, returned |-> None]

NextGrid ==
    \/ GridSearchStep
    \/ GridSearchReturn

SpecGrid == InitGrid /\ [][NextGrid]_vars

\* ------------------------------------------------------------------------
\* data.py: load_scenario, and the loop of load_dataset / iter_dataset
\* ------------------------------------------------------------------------
RequiredColumns ==
    {"time", "host_id", "host_type", "event_type", "serial_number",
     "rid_timestamp", "is_spoofed", "pos_x", "pos_y", "pos_z",
     "rid_pos_x", "rid_pos_y", "rid_pos_z", "rssi"}

\* the order in which load_scenario first indexes each column
ColumnAccessOrder ==
    <<"host_type", "host_id", "event_type", "time", "serial_number",
      "rid_timestamp", "is_spoofed", "pos_x", "pos_y", "pos_z",
      "rid_pos_x", "rid_pos_y", "rid_pos_z", "rssi">>

\* headers of the CSV files: complete, without the optional kf_nis, without a
\* required column, and the file with no header line at all
Headers ==
    {RequiredColumns \cup {"kf_nis"}, RequiredColumns,
     RequiredColumns \ {"host_type"}, {}}

TableHosts == {1, 2, 3, 4, 5}

\* what the table says about a host: nothing, benign with a reception,
\* benign with transmissions only, or spoofer with a reception
HostKinds == {"absent", "benign_rx", "benign_tx", "spoofer_rx"}

TableRow(h, kind) ==
    [time          |-> h,
     host_id       |-> h,
     host_type     |-> IF kind = "spoofer_rx" THEN "spoofer" ELSE "benign",
     event_type    |-> IF kind = "benign_tx" THEN "TX" ELSE "RX",
     serial_number |-> 1,
     rid_timestamp |-> h,
     is_spoofed    |-> FALSE,
     rssi          |-> -60,
     kf_nis        |-> RInt(1)]

\* the rows of a table, one per host the table mentions
TableRowsOf(kinds) ==
    LET hosts == AscendingSeq({h \in TableHosts : kinds[h] # "absent"})
    IN  [i \in DOMAIN hosts |-> TableRow(hosts[i], kinds[hosts[i]])]

Reverse(s) == [i \in DOMAIN s |-> s[Len(s) + 1 - i]]

\* the same rows in another order
Reorderings(rows) == {rows, Reverse(rows)}

\* a file with no header line has no rows either
TableOf(columns, rows) ==
    [columns |-> columns, rows |-> IF columns = {} THEN <<>> ELSE rows]

CsvTables ==
    {TableOf(c, TableRowsOf(kinds)) : c \in Headers, kinds \in [TableHosts -> HostKinds]}

EmptyDataError == [kind |-> "EmptyDataError"]

KeyError(column) == [kind |-> "KeyError", key |-> column]

IsException(r) == r.kind \in {"EmptyDataError", "KeyError", "ValueError"}

\* Series.unique(): the distinct values in order of first appearance
RECURSIVE Unique(_)
Unique(s) ==
    IF s = <<>> THEN <<>>
    ELSE LET init == Unique(SubSeq(s, 1, Len(s) - 1))
             last == s[Len(s)]
         IN  IF last \in Range(init) THEN init ELSE Append(init, last)

\* np.sort on distinct integers
NpSort(s) == AscendingSeq(Range(s))

\* every host that is not a spoofer taken for benign
BenignHostsOrFederates(table) ==
    LET benign == SelectSeq(table.rows, LAMBDA r : r.host_type # "spoofer")
    IN  Unique([i \in DOMAIN benign |-> benign[i].host_id])

\* benign hosts looked up among the RX rows only
BenignHostsAmongRx(table) ==
    LET rx == SelectSeq(table.rows, LAMBDA r : r.event_type = "RX")
        benign == SelectSeq(rx, LAMBDA r : r.host_type = "benign")
    IN  Unique([i \in DOMAIN benign |-> benign[i].host_id])

\* df[df["host_type"] == "benign"]["host_id"].unique(), on the full table
BenignHosts(table) ==
    LET benign == SelectSeq(table.rows, LAMBDA r : r.host_type = "benign")
    IN  Unique([i \in DOMAIN benign |-> benign[i].host_id])

DefaultNumFederates == 4

\* load_scenario(csv_path, num_federates)
LoadScenario(table, num_federates) ==
    LET missing == {i \in DOMAIN ColumnAccessOrder :
                        ColumnAccessOrder[i] \notin table.columns}
        first_missing == CHOOSE i \in missing : \A j \in missing : i <= j
        sorted == NpSort(BenignHosts(table))
        rx == SelectSeq(table.rows, LAMBDA r : r.event_type = "RX")
    IN  IF table.columns = {} THEN EmptyDataError
        ELSE IF missing # {} THEN KeyError(ColumnAccessOrder[first_missing])
        ELSE [kind |-> "ScenarioData",
              rows |-> [i \in DOMAIN rx |->
                          [rx[i] EXCEPT !.kf_nis =
                              IF "kf_nis" \in table.columns THEN @ ELSE NaN]],
              federate_host_ids |->
                  SubSeq(sorted, 1, IF num_federates < Len(sorted)
                                    THEN num_federates ELSE Len(sorted))]

\* the next CSV file of the directory is read; the first file may be any
\* table, the later ones hold the same rows in some order under some header
LoadNext ==
    /\ pc = "loading"
    /\ Len(files) < MaxFiles
    /\ \E t \in (IF files = <<>> THEN CsvTables
                 ELSE {TableOf(c, r) : c \in Headers,
                                       r \in Reorderings(files[1].rows)}) :
        LET r == LoadScenario(t, DefaultNumFederates)
        IN  /\ files' = Append(files, t)
            /\ IF IsException(r)
               THEN exc' = r /\ pc' = "raised" /\ UNCHANGED train_scenarios
               ELSE train_scenarios' = Append(train_scenarios, r)
                        /\ UNCHANGED <<pc, exc>>
    /\ UNCHANGED <<det, scoreVars, opt_result, found, ev, eval_result, grid, artifact>>

\* no file is left: load_dataset returns its list
LoadReturn ==
    /\ pc = "loading"
    /\ pc' = "loaded"
    /\ UNCHANGED <<det, scoreVars, evalVars, ioVars>>

InitLoad ==
    /\ det = None
    /\ pc = "loading"
    /\ InitScoreVars
    /\ InitIoVars
    /\ InitEvalVars

NextLoad ==
    \/ LoadNext
    \/ LoadReturn

SpecLoad == InitLoad /\ [][NextLoad]_vars

\* ------------------------------------------------------------------------
\* label_federates.py, then load_scenario on the variant it wrote
\* ------------------------------------------------------------------------
\* get_benign_hosts(csv_path)
GetBenignHosts(table) ==
    {table.rows[i].host_id : i \in {j \in DOMAIN table.rows :
                                        table.rows[j].host_type = "benign"}}

\* generate_variant(input_path, output_path, federate_hosts): the rows of
\* the chosen hosts are relabeled, the others copied
GenerateVariant(table, federate_hosts) ==
    [table EXCEPT !.rows =
        [i \in DOMAIN @ |->
            IF @[i].host_id \in federate_hosts
            THEN [@[i] EXCEPT !.host_type = "federate"]
            ELSE @[i]]]

\* base tables with the full header
BaseTables ==
    {TableOf(RequiredColumns, TableRowsOf(kinds)) : kinds \in [TableHosts -> HostKinds]}

\* main(): one variant of a base table is written, for a combination of its
\* benign hosts
WriteVariant ==
    /\ pc = "labeling"
    /\ \E t \in BaseTables :
        \E federate_hosts \in SUBSET GetBenignHosts(t) :
            files' = <<GenerateVariant(t, federate_hosts)>>
    /\ pc' = "labeled"
    /\ UNCHANGED <<det, scoreVars, evalVars, exc, artifact>>

\* load_scenario on the variant
LoadVariant ==
    /\ pc = "labeled"
    /\ train_scenarios' = <<LoadScenario(files[1], DefaultNumFederates)>>
    /\ pc' = "loaded"
    /\ UNCHANGED <<det, scoreVars, opt_result, found, ev, eval_result, grid, ioVars>>

InitLabel ==
    /\ det = None
    /\ pc = "labeling"
    /\ InitScoreVars
    /\ InitIoVars
    /\ InitEvalVars

NextLabel ==
    \/ WriteVariant
    \/ LoadVariant

SpecLabel == InitLabel /\ [][NextLabel]_vars

\* ------------------------------------------------------------------------
\* KalmanFilterDetector.score on a loaded table
\* ------------------------------------------------------------------------
\* what a kf_nis cell of the CSV can hold: empty, a number, inf or -inf
NisCells == {NaN, RZero, Rat(3, 2), PosInf, NegInf}

\* tables of RX rows of one receiver, with and without the kf_nis column
NisTables ==
    {TableOf(c, [i \in DOMAIN cells |->
                    [TableRow(1, "benign_rx") EXCEPT !.time = i,
                                                     !.rid_timestamp = i,
                                                     !.kf_nis = cells[i]]]) :
        c \in {RequiredColumns, RequiredColumns \cup {"kf_nis"}},
        cells \in SeqsUpTo(NisCells, MaxEvents - 1)}

\* load_scenario on one table
LoadNisTable ==
    /\ pc = "loading"
    /\ files = <<>>
    /\ \E t \in NisTables :
        /\ files' = <<t>>
        /\ train_scenarios' = <<LoadScenario(t, DefaultNumFederates)>>
    /\ pc' = "idle"
    /\ UNCHANGED <<det, scoreVars, opt_result, found, ev, eval_result, grid,
                   exc, artifact>>

InitKalman ==
    /\ det = KalmanFilterDetector
    /\ pc = "loading"
    /\ InitScoreVars
    /\ InitIoVars
    /\ InitEvalVars

NextKalman ==
    \/ LoadNisTable
    \/ KalmanScore(Range(train_scenarios), 1)

SpecKalman == InitKalman /\ [][NextKalman]_vars

\* ------------------------------------------------------------------------
\* A PositionErrorKF on its own: constructed, then updated call after call
\* ------------------------------------------------------------------------
\* Q >= 0, R > 0, any estimate, positive covariance
KfFilters ==
    {PositionErrorKFWith(q, r, x0, p0) :
        q \in {RZero, RInt(1)}, r \in {RInt(1), RInt(2)},
        x0 \in {RZero, RInt(2)}, p0 \in {RInt(1), RInt(2)}}

KfMeasurements == {RZero, RInt(1), RInt(3)}

\* the one filter of this run, kept under serial number 1
TheFilter == kf_per_transmitter[1]

\* kf.update(z): the filter moves on; the call, the filter before it and the
\* returned tuple are logged
KfUpdateCall ==
    /\ pc = "filter"
    /\ Len(fedLog) < MaxUpdates
    /\ \E z \in KfMeasurements :
        LET u == KfUpdate(TheFilter, z)
        IN  /\ kf_per_transmitter' = (1 :> u.kf)
            /\ fedLog' = Append(fedLog,
                  [serial_number |-> 1, rid_timestamp |-> Len(fedLog) + 1,
                   measurement |-> z, before |-> TheFilter,
                   nis |-> u.nis, filtered_error |-> u.filtered_error,
                   innovation |-> u.innovation, after |-> u.kf])
    /\ UNCHANGED <<det, pc, scenario, scores, unique_transmissions, txi, lsq,
                   calls, returned, evalVars, ioVars>>

InitKf ==
    /\ det = None
    /\ pc = "filter"
    /\ scenario = ScenarioOf(<<>>)
    /\ scores = <<>>
    /\ \E kf \in KfFilters : kf_per_transmitter = (1 :> kf)
    /\ unique_transmissions = <<>>
    /\ txi = 1
    /\ fedLog = <<>>
    /\ lsq = <<>>
    /\ calls = 0
    /\ returned = <<>>
    /\ InitIoVars
    /\ InitEvalVars

NextKf == KfUpdateCall

SpecKf == InitKf /\ [][NextKf]_vars

\* ------------------------------------------------------------------------
\* Properties of MultilatDetector.score
\* ------------------------------------------------------------------------
KeyOfEvent(i) == <<scenario.rows[i].serial_number, scenario.rows[i].rid_timestamp>>

EventsOf(key) == {i \in DOMAIN scenario.rows : KeyOfEvent(i) = key}

FederateEventsOf(key) ==
    {i \in EventsOf(key) : scenario.rows[i].host_id \in scenario.federate_host_ids}

FederateReceiversOf(key) == {scenario.rows[i].host_id : i \in FederateEventsOf(key)}

ScenarioKeys == {KeyOfEvent(i) : i \in DOMAIN scenario.rows}

FirstRowOf(key) == CHOOSE i \in EventsOf(key) : \A j \in EventsOf(key) : i <= j

PassDone == pc = "idle" /\ calls = 1

\* C1: an event has a non-zero score only if at least min_federates DISTINCT
\* federate receivers reported its transmission.
C1_NonZeroNeedsDistinctFederates ==
    \A i \in DOMAIN scores :
        scores[i] # RZero =>
            Cardinality(FederateReceiversOf(KeyOfEvent(i))) >= det.min_federates

\* C2: any two RX events of the same transmission have identical scores,
\* federate or not, whether the transmission was scored, skipped or rejected.
C2_SameScoreWithinTransmission ==
    \A i, j \in DOMAIN scores :
        KeyOfEvent(i) = KeyOfEvent(j) => scores[i] = scores[j]

C2_Witness ==
    /\ PassDone
    /\ \E i, j \in DOMAIN scores :
        /\ KeyOfEvent(i) = KeyOfEvent(j)
        /\ scenario.rows[i].host_id \in scenario.federate_host_ids
        /\ scenario.rows[j].host_id \notin scenario.federate_host_ids
        /\ scores[j] # RZero

\* C3: for each serial number the measurements fed to its filter come in
\* strictly increasing rid_timestamp order, whatever the order of the rows.
C3_FilterFedInRidTimestampOrder ==
    \A i, j \in DOMAIN fedLog :
        (i < j /\ fedLog[i].serial_number = fedLog[j].serial_number)
            => fedLog[i].rid_timestamp < fedLog[j].rid_timestamp

C3_Witness ==
    \E i, j \in DOMAIN fedLog :
        /\ i < j
        /\ fedLog[i].serial_number = fedLog[j].serial_number
        /\ FirstRowOf(<<fedLog[j].serial_number, fedLog[j].rid_timestamp>>)
              < FirstRowOf(<<fedLog[i].serial_number, fedLog[i].rid_timestamp>>)

\* C4: with fewer than min_federates federate RX events, every RX event of
\* the transmission scores 0, and the loop goes on to the next transmission.
AtCoverageGap ==
    /\ pc = "loop"
    /\ txi <= Len(unique_transmissions)
    /\ Cardinality(FederateEventsOf(unique_transmissions[txi])) < det.min_federates

C4_CoverageGapScoresZero ==
    /\ [](\A i \in DOMAIN scores :
            Cardinality(FederateEventsOf(KeyOfEvent(i))) < det.min_federates
                => scores[i] = RZero)
    /\ [][AtCoverageGap =>
            /\ pc' = "loop"
            /\ txi' = txi + 1
            /\ UNCHANGED <<scores, kf_per_transmitter, fedLog>>]_vars

C4_Witness ==
    /\ PassDone
    /\ det.min_federates = 4
    /\ \E k \in ScenarioKeys :
        /\ Cardinality(FederateEventsOf(k)) = 3
        /\ \E e \in Range(fedLog) : e.rid_timestamp > k[2] /\ e.score # RZero

\* C5: score is a pure function of (scenario, detector parameters): a call
\* returns the same array whatever the instance scored before, starts with no
\* filter state, and changes neither the scenario nor the detector.
C5_ScoreIsPure ==
    /\ [](\A i, j \in DOMAIN returned :
            returned[i].scenario = returned[j].scenario
                => returned[i].scores = returned[j].scores)
    /\ []((pc = "loop" /\ txi = 1) => kf_per_transmitter = <<>>)
    /\ [][det' = det /\ (pc = "loop" => scenario' = scenario)]_vars

C5_Witness ==
    /\ Len(returned) = 3
    /\ returned[1].scenario = returned[3].scenario
    /\ returned[2].scenario # returned[1].scenario
    /\ \E i \in DOMAIN returned[2].scores : returned[2].scores[i] # RZero
    /\ \E i \in DOMAIN returned[3].scores : returned[3].scores[i] # RZero
    /\ det.name = "Multilateration"
    /\ returned[2].scenario.rows[1].serial_number
          = returned[3].scenario.rows[1].serial_number

\* ------------------------------------------------------------------------
\* Properties of run_evaluation, optimize_threshold and OptimizationResult
\* ------------------------------------------------------------------------
\* C6: the threshold and parameters applied to the test scenarios are those
\* fixed in training: evaluate_detector is entered with best_threshold, uses it
\* unchanged for every test scenario and for the metrics, reports it in the
\* EvaluationResult together with the trained parameters, and no step after
\* training (so no test scenario) changes the OptimizationResult.
C6_TestNeverRetunes ==
    /\ [](pc \in {"evaluating", "done"} =>
            /\ ev.threshold = opt_result.best_threshold
            /\ \A i \in DOMAIN ev.used : ev.used[i] = opt_result.best_threshold)
    /\ [](pc = "done" =>
            /\ eval_result.threshold = opt_result.best_threshold
            /\ eval_result.metrics.threshold = opt_result.best_threshold
            /\ eval_result.params = opt_result.best_params)
    /\ [][pc # "train" => opt_result' = opt_result]_vars

C6_Witness ==
    /\ pc = "done"
    /\ Len(ev.all_times) = 2
    /\ Len(ev.used) >= 1
    /\ Len(eval_result.time_to_detection_list) = 1
    /\ LET labels == Flatten(ev.all_labels)
           sc == Flatten(ev.all_scores)
       IN  \E p \in ArgsortDescending(sc) :
             LET r == OptimizeThreshold(det, labels, sc, p)
             IN  r # ValueError /\ r.best_threshold # opt_result.best_threshold

TrainArrays == CollectScoresAndLabels(det, train_scenarios, FALSE)

\* Youden's J of the training events at threshold t, predicting score >= t
YoudenJ(t) ==
    LET c == ComputeConfusionAtThreshold(TrainArrays.labels, TrainArrays.scores, t)
    IN  RSub(c.tpr, c.fpr)

TrainHasBothClasses ==
    /\ TrainArrays # ValueError
    /\ \E i \in DOMAIN TrainArrays.labels : TrainArrays.labels[i]
    /\ \E i \in DOMAIN TrainArrays.labels : ~ TrainArrays.labels[i]

\* C7: best_threshold maximizes Youden's J over the observed score values:
\* no observed score value t has TPR(t) - FPR(t) above that of best_threshold.
C7_BestThresholdMaximizesYoudenJ ==
    (pc = "optimized" /\ TrainHasBothClasses) =>
        \A i \in DOMAIN TrainArrays.scores :
            RLe(YoudenJ(TrainArrays.scores[i]), YoudenJ(opt_result.best_threshold))

ValidForFpr(target) ==
    {i \in DOMAIN opt_result.fpr_curve : RLe(opt_result.fpr_curve[i], target)}

ValidForTpr(target) ==
    {i \in DOMAIN opt_result.tpr_curve : RLe(target, opt_result.tpr_curve[i])}

\* C8: find_threshold_for_fpr returns the lowest threshold of the grid whose
\* curve FPR is <= target, whenever some grid point has FPR <= target.
C8_FprQueryReturnsLowest ==
    (pc = "optimized" /\ found # None /\ found.query = "fpr") =>
        \A i \in ValidForFpr(found.target) :
            RLe(found.threshold, opt_result.thresholds[i])

\* C9: find_threshold_for_tpr returns the highest threshold of the grid whose
\* curve TPR is >= target, whenever some grid point has TPR >= target.
C9_TprQueryReturnsHighest ==
    (pc = "optimized" /\ found # None /\ found.query = "tpr") =>
        \A i \in ValidForTpr(found.target) :
            RLe(opt_result.thresholds[i], found.threshold)

\* ------------------------------------------------------------------------
\* Properties of grid_search
\* ------------------------------------------------------------------------
\* the combination at position a of the first list and b of the second
Combination(a, b) == <<grid.param_values[1][a], grid.param_values[2][b]>>

\* its place in the enumeration of the Cartesian product
PlaceOf(a, b) == (a - 1) * Len(grid.param_values[2]) + b

\* C10: grid_search evaluates every combination of the Cartesian product
\* exactly once, in enumeration order, and returns the combination and the
\* OptimizationResult of highest training AUC, the first one on ties.
C10_GridSearchReturnsFirstBest ==
    pc = "grid_done" =>
        /\ Len(grid.evaluated)
              = Len(grid.param_values[1]) * Len(grid.param_values[2])
        /\ \A a \in DOMAIN grid.param_values[1], b \in DOMAIN grid.param_values[2] :
              grid.evaluated[PlaceOf(a, b)].params = Combination(a, b)
        /\ \A k \in DOMAIN grid.evaluated :
              (/\ \A j \in DOMAIN grid.evaluated :
                     RLe(grid.evaluated[j].result.best_auc,
                         grid.evaluated[k].result.best_auc)
               /\ \A j \in 1..(k - 1) :
                     RLt(grid.evaluated[j].result.best_auc,
                         grid.evaluated[k].result.best_auc))
              => grid.returned = <<grid.evaluated[k].result, grid.evaluated[k].params>>

C10_Witness ==
    /\ pc = "grid_done"
    /\ Len(grid.evaluated) = 4
    /\ grid.returned[2] = grid.evaluated[2].params
    /\ grid.evaluated[4].result.best_auc = grid.evaluated[2].result.best_auc
    /\ RLt(grid.evaluated[1].result.best_auc, grid.evaluated[2].result.best_auc)
    /\ RLt(grid.evaluated[3].result.best_auc, grid.evaluated[2].result.best_auc)

\* ------------------------------------------------------------------------
\* Properties of load_scenario, load_dataset and iter_dataset
\* ------------------------------------------------------------------------
\* hosts with at least one row labeled benign, whatever the event type
BenignLabeled(t) ==
    {t.rows[i].host_id : i \in {k \in DOMAIN t.rows : t.rows[k].host_type = "benign"}}

HostsWithRx(t) ==
    {t.rows[i].host_id : i \in {k \in DOMAIN t.rows : t.rows[k].event_type = "RX"}}

\* the same rows, each as often, in any order
SameRows(t, u) ==
    /\ Len(t.rows) = Len(u.rows)
    /\ \A r \in Range(t.rows) \cup Range(u.rows) :
          Count(t.rows, r) = Count(u.rows, r)

HasRequiredColumns(t) == RequiredColumns \subseteq t.columns

\* C11: federate_host_ids are the num_federates smallest host ids among the
\* hosts with a benign row anywhere in the table, RX or not, and are the same
\* for any order of the table's rows.
C11_FederatesAreSmallestBenignHosts ==
    /\ \A i \in DOMAIN train_scenarios :
        LET fed == train_scenarios[i].federate_host_ids
            benign == BenignLabeled(files[i])
            k == IF Cardinality(benign) < DefaultNumFederates
                 THEN Cardinality(benign) ELSE DefaultNumFederates
        IN  /\ Len(fed) = k
            /\ Cardinality(Range(fed)) = k
            /\ Range(fed) \subseteq benign
            /\ \A f \in Range(fed), b \in benign \ Range(fed) : f < b
    /\ \A i, j \in DOMAIN train_scenarios :
        SameRows(files[i], files[j]) =>
            train_scenarios[i].federate_host_ids = train_scenarios[j].federate_host_ids

C11_Witness ==
    /\ pc = "loaded"
    /\ Len(train_scenarios) = 2
    /\ files[1].rows # files[2].rows
    /\ Cardinality(BenignLabeled(files[1])) = 5
    /\ \E f \in Range(train_scenarios[2].federate_host_ids) :
          f \notin HostsWithRx(files[2])

\* C12: every Scenario load_scenario returns has at least 4 distinct
\* federate receivers (exactly num_federates), whatever table it accepts.
C12_AtLeastFourFederates ==
    \A i \in DOMAIN train_scenarios :
        Cardinality(Range(train_scenarios[i].federate_host_ids)) = DefaultNumFederates

\* C13: a table without a required column, or without header, ends the load
\* with an InputFormatError and yields no Scenario, and the directory load
\* stops with that failure rather than skipping the file.
C13_BadTableRaisesInputFormatError ==
    \A i \in DOMAIN files :
        ~ HasRequiredColumns(files[i]) =>
            /\ pc = "raised"
            /\ exc.kind = "InputFormatError"
            /\ i = Len(files)
            /\ Len(train_scenarios) = i - 1

\* ------------------------------------------------------------------------
\* Properties of the metrics
\* ------------------------------------------------------------------------
\* the labels of the collected training events, none for an empty directory
TrainLabels == IF train_scenarios = <<>> THEN <<>> ELSE TrainArrays.labels

\* C14: on labels of any length with no positive or no negative label the ROC
\* computation does not raise and gives AUC = 0.5 with the two-point curves
\* [0, 1], so optimize_threshold completes too.
C14_DegenerateLabelsGiveNeutralAuc ==
    (pc # "train" /\ (TRUE \notin Range(TrainLabels) \/ FALSE \notin Range(TrainLabels))) =>
        /\ pc = "optimized"
        /\ opt_result.best_auc = Rat(1, 2)
        /\ opt_result.fpr_curve = <<RInt(0), RInt(1)>>
        /\ opt_result.tpr_curve = <<RInt(0), RInt(1)>>

NonDecreasing(s) == \A i \in 1..(Len(s) - 1) : RLe(s[i], s[i + 1])

NonIncreasing(s) == \A i \in 1..(Len(s) - 1) : RLe(s[i + 1], s[i])

\* C15: on non-empty input the ROC curves are monotone along the sorted-score
\* walk: fpr and tpr never decrease, thresholds never increase, the curve runs
\* from (0, 0) to (1, 1), and the AUC lies in [0, 1].
C15_RocCurvesMonotone ==
    pc = "optimized" =>
        LET n == Len(opt_result.thresholds)
        IN  /\ Len(opt_result.fpr_curve) = n /\ Len(opt_result.tpr_curve) = n
            /\ NonDecreasing(opt_result.fpr_curve)
            /\ NonDecreasing(opt_result.tpr_curve)
            /\ NonIncreasing(opt_result.thresholds)
            /\ opt_result.fpr_curve[1] = RInt(0) /\ opt_result.tpr_curve[1] = RInt(0)
            /\ opt_result.fpr_curve[n] = RInt(1) /\ opt_result.tpr_curve[n] = RInt(1)
            /\ RLe(RInt(0), opt_result.best_auc) /\ RLe(opt_result.best_auc, RInt(1))

C15_Witness ==
    /\ pc = "optimized"
    /\ Len(opt_result.thresholds) = 5
    /\ opt_result.thresholds[2] # opt_result.thresholds[5]
    /\ opt_result.thresholds[3] = opt_result.thresholds[4]
    /\ RLt(RInt(0), opt_result.best_auc) /\ RLt(opt_result.best_auc, RInt(1))

TestTimes == Flatten(ev.all_times)

TestLabels == Flatten(ev.all_labels)

TestScores == Flatten(ev.all_scores)

\* test events of a given label and prediction at the threshold in use
TestEvents(label, flagged) ==
    {i \in DOMAIN TestLabels :
        TestLabels[i] = label /\ RLe(ev.threshold, TestScores[i]) = flagged}

\* C16: the confusion counts flag exactly the events with score >= threshold,
\* add up to the number of events, positives and negatives, and TPR and FPR
\* are TP/(TP+FN) and FP/(FP+TN), or 0 on a zero denominator.
C16_ConfusionCountsAddUp ==
    pc = "done" =>
        LET m == eval_result.metrics
            n_pos == Count(TestLabels, TRUE)
            n_neg == Count(TestLabels, FALSE)
        IN  /\ m.true_positives = Cardinality(TestEvents(TRUE, TRUE))
            /\ m.false_positives = Cardinality(TestEvents(FALSE, TRUE))
            /\ m.true_positives + m.true_negatives
                  + m.false_positives + m.false_negatives = Len(TestLabels)
            /\ m.true_positives + m.false_negatives = n_pos
            /\ m.false_positives + m.true_negatives = n_neg
            /\ m.tpr = IF n_pos = 0 THEN RInt(0) ELSE Rat(m.true_positives, n_pos)
            /\ m.fpr = IF n_neg = 0 THEN RInt(0) ELSE Rat(m.false_positives, n_neg)

C16_Witness ==
    /\ pc = "done"
    /\ eval_result.metrics.true_positives = 1
    /\ eval_result.metrics.false_negatives = 1
    /\ eval_result.metrics.false_positives + eval_result.metrics.true_negatives = 0
    /\ \E i \in TestEvents(TRUE, TRUE) : TestScores[i] = ev.threshold

\* the earliest time among a set of test events
EarliestTime(S) == CHOOSE t \in {TestTimes[i] : i \in S} :
                        \A i \in S : RLe(t, TestTimes[i])

\* C17: for events in non-decreasing time order the time to detection is the
\* time of the first spoofed event with score >= threshold minus the time of
\* the first spoofed event, and is absent exactly when no spoofed event
\* exists or none reaches the threshold.
C17_TimeToDetectionFromFirstSpoofed ==
    (pc = "done" /\ NonDecreasing(TestTimes)) =>
        LET ttd == eval_result.metrics.time_to_detection
            detected == TestEvents(TRUE, TRUE)
            spoofed == {i \in DOMAIN TestLabels : TestLabels[i]}
        IN  /\ (ttd = None) <=> (detected = {})
            /\ detected # {} =>
                  ttd.value = RSub(EarliestTime(detected), EarliestTime(spoofed))

C17_Witness ==
    /\ pc = "done"
    /\ NonDecreasing(TestTimes)
    /\ eval_result.metrics.time_to_detection # None
    /\ eval_result.metrics.time_to_detection.value = RInt(1)
    /\ TestEvents(FALSE, TRUE) # {}

\* ------------------------------------------------------------------------
\* Properties of evaluate_detector's results
\* ------------------------------------------------------------------------
\* the events of the k-th test scenario that are spoofed / spoofed and flagged
SpoofedIn(k) == {i \in DOMAIN ev.all_labels[k] : ev.all_labels[k][i]}

DetectedIn(k) ==
    {i \in SpoofedIn(k) : RLe(ev.threshold, ev.all_scores[k][i])}

FirstOf(S) == CHOOSE i \in S : \A j \in S : i <= j

\* one latency per scenario with a detected spoofed event, in scenario order
RECURSIVE ExpectedTtdList(_)
ExpectedTtdList(k) ==
    IF k = 0 THEN <<>>
    ELSE IF DetectedIn(k) = {} THEN ExpectedTtdList(k - 1)
    ELSE Append(ExpectedTtdList(k - 1),
                RSub(ev.all_times[k][FirstOf(DetectedIn(k))],
                     ev.all_times[k][FirstOf(SpoofedIn(k))]))

\* C18: time_to_detection_list holds, in scenario order, exactly one value
\* per test scenario with a spoofed event and a true positive and none for
\* the others; n_scenarios_with_ttd is its length, and the mean and median
\* are None exactly when it is empty.
C18_OneLatencyPerDetectedScenario ==
    /\ pc = "evaluating" => ev.ttd_list = ExpectedTtdList(Len(ev.all_times))
    /\ pc = "done" =>
        /\ eval_result.time_to_detection_list = ExpectedTtdList(Len(ev.all_times))
        /\ EvaluationResultToDict(eval_result).n_scenarios_with_ttd
              = Cardinality({k \in DOMAIN ev.all_times : DetectedIn(k) # {}})
        /\ (MeanTimeToDetection(eval_result) = None)
              <=> (eval_result.time_to_detection_list = <<>>)
        /\ (MedianTimeToDetection(eval_result) = None)
              <=> (eval_result.time_to_detection_list = <<>>)

C18_Witness ==
    /\ pc = "done"
    /\ Len(ev.all_times) = 2
    /\ SpoofedIn(1) # {} /\ DetectedIn(1) = {}
    /\ eval_result.time_to_detection_list = <<RInt(1)>>
    /\ MeanTimeToDetection(eval_result) = Float(RInt(1))

\* Reading the JSON text, as json.load does
RECURSIVE FromDigits(_)
FromDigits(ds) ==
    IF ds = <<>> THEN 0
    ELSE 10 * FromDigits(SubSeq(ds, 1, Len(ds) - 1)) + ds[Len(ds)]

RECURSIVE PowerOfTen(_)
PowerOfTen(k) == IF k = 0 THEN 1 ELSE 10 * PowerOfTen(k - 1)

\* the value of the digits after the point
RealValue(j) ==
    LET k == Len(j.frac)
        m == Len(j.period)
        magnitude ==
            RAdd(RAdd(RInt(FromDigits(j.whole)),
                      Rat(FromDigits(j.frac), PowerOfTen(k))),
                 IF m = 0 THEN RZero
                 ELSE RDiv(Rat(FromDigits(j.period), PowerOfTen(m) - 1),
                           RInt(PowerOfTen(k))))
    IN  IF j.neg THEN RNeg(magnitude) ELSE magnitude

\* json.load: null to None, numbers to int or float, objects to dicts
RECURSIVE JsonLoad(_)
JsonLoad(j) ==
    IF j.t = "null" THEN None
    ELSE IF j.t = "int"
    THEN IF j.neg THEN 0 - FromDigits(j.whole) ELSE FromDigits(j.whole)
    ELSE IF j.t = "real" THEN Float(RealValue(j))
    ELSE IF j.t = "string" THEN j.chars
    ELSE [k \in DOMAIN j.members |-> JsonLoad(j.members[k])]

\* the result artifact parsed back
Reparsed == JsonLoad(artifact)

\* C19: writing an EvaluationResult to the JSON artifact with to_dict and
\* parsing it back gives the same threshold, AUC and confusion counts.
C19_JsonRoundTrip ==
    pc = "saved" =>
        LET d == Reparsed.evaluation
            m == eval_result.metrics
        IN  /\ d.threshold = Float(eval_result.threshold)
            /\ d.metrics.threshold = Float(m.threshold)
            /\ d.metrics.auc = Float(m.auc)
            /\ d.metrics.true_positives = m.true_positives
            /\ d.metrics.true_negatives = m.true_negatives
            /\ d.metrics.false_positives = m.false_positives
            /\ d.metrics.false_negatives = m.false_negatives

C19_Witness ==
    /\ pc = "saved"
    /\ RLt(RInt(0), eval_result.metrics.auc)
    /\ RLt(eval_result.metrics.auc, RInt(1))
    /\ eval_result.metrics.true_positives = 2
    /\ eval_result.metrics.false_positives = 1
    /\ eval_result.metrics.false_negatives = 0
    /\ artifact.members.evaluation.members.metrics.members.auc.frac # <<0>>

\* the transmissions the current pass has dealt with
Processed == {unique_transmissions[k] : k \in 1..(txi - 1)}

\* a transmission that reaches the solver
Eligible(key) ==
    /\ EnoughFederates(det, scenario, key)
    /\ Len(SolverInput(scenario, key)) >= MinMeasurements

\* what the solver did on the transmission's input
OutcomeOf(key) == lsq[SolverInput(scenario, key)]

\* the transmission got an estimate: the filter was fed a measurement for it
Estimated(key) ==
    \E i \in DOMAIN fedLog :
        /\ fedLog[i].serial_number = key[1]
        /\ fedLog[i].rid_timestamp = key[2]

AllEventsZero(key) == \A i \in Indices(scenario, key) : scores[i] = RZero

\* C20: an eligible transmission's estimate is accepted iff the solver did
\* not raise and reports success or a cost below 100; a transmission whose
\* estimate is not accepted, or whose solver call raised, leaves all its
\* events at score 0, and the pass goes on to return one score per event.
C20_AcceptedIffSuccessOrLowCost ==
    /\ pc \in {"idle", "loop"}
    /\ exc = None
    /\ \A key \in Processed :
        Eligible(key) =>
            LET out == OutcomeOf(key)
            IN  /\ Estimated(key) <=>
                      (~ out.raised /\ (out.success \/ out.cost < 100))
                /\ (out.raised \/ ~ (out.success \/ out.cost < 100))
                      => AllEventsZero(key)
    /\ \A r \in Range(returned) : Len(r.scores) = n_events(r.scenario)

C20_Witness ==
    /\ calls = 1
    /\ \E k1, k2 \in Processed :
        /\ Eligible(k1) /\ Eligible(k2)
        /\ OutcomeOf(k1).raised
        /\ AllEventsZero(k1)
        /\ ~ OutcomeOf(k2).raised
        /\ ~ OutcomeOf(k2).success
        /\ OutcomeOf(k2).cost < 100
        /\ Estimated(k2)
        /\ ~ AllEventsZero(k2)

\* C21: KalmanFilterDetector.score returns one score per event, the event's
\* kf_nis when that is a value and 0 when it is missing (NaN); a table
\* without the kf_nis column scores all zeros.
C21_KalmanScoreIsNisOrZero ==
    \A r \in Range(returned) :
        /\ Len(r.scores) = n_events(r.scenario)
        /\ \A i \in DOMAIN r.scores :
            r.scores[i] = IF r.scenario.rows[i].kf_nis = NaN THEN RZero
                          ELSE r.scenario.rows[i].kf_nis
        /\ "kf_nis" \notin files[1].columns =>
                \A i \in DOMAIN r.scores : r.scores[i] = RZero

\* one update as the sentence reads, with the predicted covariance P_pred
\* entering the innovation variance as P_pred + Q + R
StatedUpdate(x, P_pred, Q, R, z) ==
    LET innovation == RSub(z, x)
        S == RAdd(RAdd(P_pred, Q), R)
        K == RDiv(P_pred, S)
    IN  [nis |-> RDiv(RMul(innovation, innovation), S),
         innovation |-> innovation,
         x |-> RAdd(x, RMul(K, innovation)),
         P |-> RMul(RSub(RInt(1), K), P_pred)]

\* what an update call returned and left behind
Observed(e) ==
    [nis |-> e.nis, innovation |-> e.innovation, x |-> e.after.x, P |-> e.after.P]

\* C23 as stated: innovation variance = predicted covariance + Q + R and
\* gain = predicted covariance / innovation variance, with one and the same
\* predicted covariance (be it P or P + Q) in both.
C23_InnovationVarianceAddsQAndR ==
    \A i \in DOMAIN fedLog :
        LET e == fedLog[i]
            b == e.before
        IN  \E P_pred \in {b.P, RAdd(b.P, b.Q)} :
                Observed(e) = StatedUpdate(b.x, P_pred, b.Q, b.R, e.measurement)

\* C23 amended: predicted state = x, predicted covariance = P + Q,
\* innovation = z - x, innovation variance = predicted covariance + R,
\* NIS = innovation^2 / innovation variance, gain = predicted covariance /
\* innovation variance, new state = x + gain * innovation, new covariance =
\* (1 - gain) * predicted covariance; the update returns NIS, the new state
\* and the innovation.
C23_InnovationVarianceIsPredictedPlusR ==
    \A i \in DOMAIN fedLog :
        LET e == fedLog[i]
            b == e.before
            P_pred == RAdd(b.P, b.Q)
            innovation == RSub(e.measurement, b.x)
            S == RAdd(P_pred, b.R)
            K == RDiv(P_pred, S)
        IN  /\ e.innovation = innovation
            /\ e.nis = RDiv(RMul(innovation, innovation), S)
            /\ e.after.x = RAdd(b.x, RMul(K, innovation))
            /\ e.filtered_error = e.after.x
            /\ e.after.P = RMul(RSub(RInt(1), K), P_pred)
            /\ e.after.Q = b.Q /\ e.after.R = b.R

C23_Witness ==
    /\ Len(fedLog) = 2
    /\ fedLog[2].before.Q = RInt(1)
    /\ fedLog[2].innovation # RZero
    /\ fedLog[2].before = fedLog[1].after

\* a transmitter's filter, or None while it has none
FilterState(filters, sn) == IF sn \in DOMAIN filters THEN filters[sn] ELSE None

\* the loop is at a transmission of sn that reaches the solver, and the
\* solver's result on it is accepted
AtAcceptedTransmissionOf(sn) ==
    /\ txi <= Len(unique_transmissions)
    /\ unique_transmissions[txi][1] = sn
    /\ Eligible(unique_transmissions[txi])
    /\ LET out == lsq'[SolverInput(scenario, unique_transmissions[txi])]
       IN  ~ out.raised /\ (out.success \/ out.cost < CostTolerance)

\* one update of sn's own filter (a fresh one if it had none) with the raw
\* error of the transmission at hand
OneUpdateOf(sn) ==
    LET out == lsq'[SolverInput(scenario, unique_transmissions[txi])]
        own == IF sn \in DOMAIN kf_per_transmitter THEN kf_per_transmitter[sn]
               ELSE PositionErrorKF(det.kf_process_noise, det.kf_measurement_noise)
    IN  kf_per_transmitter'[sn] = KfUpdate(own, RInt(out.dist)).kf

\* within a pass, the filter of sn changes only at an accepted transmission
\* of sn, by one update
FilterFrame ==
    pc = "loop" =>
        \A sn \in SerialNumbers :
            FilterState(kf_per_transmitter', sn) # FilterState(kf_per_transmitter, sn)
                => AtAcceptedTransmissionOf(sn) /\ OneUpdateOf(sn)

\* the scores of the events of transmitter sn, in event order
ScoresOf(r, sn) ==
    LET own == AscendingSeq({i \in DOMAIN r.scenario.rows :
                                r.scenario.rows[i].serial_number = sn})
    IN  [j \in DOMAIN own |-> r.scores[own[j]]]

\* the second pass saw the first scenario without the other transmitters and
\* gave this transmitter's events the scores they had
SameScoresWithoutOthers ==
    Len(returned) = 2 =>
        \A sn \in SerialNumbers :
            returned[2].scenario = OnlyTransmitter(returned[1].scenario, sn)
                => returned[2].scores = ScoresOf(returned[1], sn)

\* C24: during a score pass a transmitter's filter state changes only while
\* a transmission of that transmitter with an accepted estimate is
\* processed, and then by exactly one update; gaps, rejected or failed solves
\* and other transmitters' transmissions neither create nor modify it, and
\* removing the other transmitters' events leaves its scores unchanged.
C24_FilterTouchedOnlyByOwnTransmissions ==
    [][FilterFrame]_vars /\ [](SameScoresWithoutOthers)

C24_Witness ==
    /\ Len(returned) = 2
    /\ returned[2].scenario = OnlyTransmitter(returned[1].scenario, 1)
    /\ returned[2].scenario # returned[1].scenario
    /\ Len(fedLog) = 1
    /\ fedLog[1].measurement # RZero
    /\ \E i \in DOMAIN returned[1].scores :
            /\ returned[1].scenario.rows[i].serial_number = 2
            /\ returned[1].scores[i] # RZero
    /\ \E k \in Range(UniqueTransmissions(returned[1].scenario)) :
            k[1] = 1 /\ ~ Estimated(k)

\* C25: compute_roc_auc returns the same AUC for every reordering of the
\* same multiset of (label, score) pairs, equal scores included.
C25_AucInvariantUnderReordering ==
    found # None => found.first.auc = found.second.auc

\* C26: every score MultilatDetector.score writes or returns is >= 0, in the
\* filtered-error mode and in the NIS mode, whatever the accepted raw errors.
C26_ScoresNonNegative ==
    /\ \A i \in DOMAIN scores : RLe(RZero, scores[i])
    /\ \A r \in Range(returned) : \A i \in DOMAIN r.scores : RLe(RZero, r.scores[i])
    /\ \A i \in DOMAIN fedLog : RLe(RZero, fedLog[i].score)

C26_Witness ==
    /\ calls = 1
    /\ ~ det.use_filtered_error
    /\ Len(fedLog) = 2
    /\ fedLog[2].serial_number = fedLog[1].serial_number
    /\ RLt(fedLog[2].measurement, fedLog[2].before.x)
    /\ RLt(RZero, fedLog[2].score)
    /\ \E i \in DOMAIN returned[1].scores : returned[1].scores[i] = fedLog[2].score

\* the gain an update applied, read off the covariance it left:
\* P_new = (1 - K) * P_pred
GainApplied(e) ==
    RSub(RInt(1), RDiv(e.after.P, RAdd(e.before.P, e.before.Q)))

Between(a, x, b) == (RLe(a, x) /\ RLe(x, b)) \/ (RLe(b, x) /\ RLe(x, a))

FederateReceptions(key) == Cardinality(FederateIndices(scenario, key))

\* the loop is at a transmission with fewer than 4 federate receptions
AtShortTransmission ==
    /\ pc = "loop"
    /\ txi <= Len(unique_transmissions)
    /\ FederateReceptions(unique_transmissions[txi]) < 4

C29_TimeToDetectionNonNegative ==
    pc \in {"done", "saved"} =>
        /\ \A i \in DOMAIN eval_result.time_to_detection_list :
                RLe(RZero, eval_result.time_to_detection_list[i])
        /\ eval_result.metrics.time_to_detection # None =>
                RLe(RZero, eval_result.metrics.time_to_detection.value)

\* the labels a host carries in the table that was loaded
LabelsOfHost(h) ==
    {files[1].rows[i].host_type : i \in {j \in DOMAIN files[1].rows :
                                            files[1].rows[j].host_id = h}}

====
